---- MODULE Spec2Model ----
(***************************************************************************)
(* A model of zhaires.py's output-parsing layer: the summary-report        *)
(* reader (loader.load_properties), the waveform assembler                 *)
(* (loader.load_waveforms with its .npy cache), the table classifier       *)
(* (table.parse_table_type / table.load_table), the dataset loader         *)
(* (xarray.load_waveforms with its .nc cache) and the Aires session        *)
(* (aires.Task).                                                           *)
(*                                                                         *)
(* Files are modelled by their content.  A summary report is a sequence    *)
(* of lines; a line is the set of regular-expression matches it yields,    *)
(* each with the text its groups capture.  Real numbers are fixed-point    *)
(* integers in units of 10^-4, which is exact for the decimal numerals of  *)
(* the bounded inputs.                                                     *)
(***************************************************************************)
EXTENDS Integers, Sequences, FiniteSets, TLC

VARIABLES
    sry,     \* <sim>/<sim>.sry        : [exists, lines]
    pret,    \* outcome of the last load_properties call
    raw,     \* <sim>/timefresnel-root.dat : [exists, rows]
    cache,   \* <sim>/waveforms.npy    : [exists, data]
    wret,    \* outcome of the last load_waveforms call
    tfile,   \* <sim>/<sim>.t<table>   : [exists, text]
    tret,    \* outcome of the last parse_table_type / load_table call
    task,    \* the aires.Task object, its subprocess and the pipe to it
    nc,      \* <sim>/<sim>.nc           : [exists, dataset]
    xret     \* outcome of the last xarray.load_waveforms call

vars == <<sry, pret, raw, cache, wret, tfile, tret, task, nc, xret>>

(***************************************************************************)
(* Bounds of the model.                                                    *)
(***************************************************************************)
\* Longest summary report (in lines) enumerated for load_properties.
MaxLines == 3

(***************************************************************************)
(* Numbers.                                                                *)
(***************************************************************************)
RECURSIVE Pow10(_)
Pow10(n) == IF n = 0 THEN 1 ELSE 10 * Pow10(n - 1)

\* The fixed-point representation of 1.0 (four decimal places).
FixOne == Pow10(4)

\* x * 10^k on fixed-point numbers (np.power(10.0, k) followed by `*`).
Scale10(x, k) == IF k >= 0 THEN x * Pow10(k) ELSE x \div Pow10(-k)

\* Body(value), with `value` worked out once.
Bind(value, Body(_)) == CHOOSE r \in { Body(x) : x \in {value} } : TRUE

(***************************************************************************)
(* Captured numerals.  The patterns capture \d+.\d+ where `.` matches any  *)
(* character, so a capture is an integer part, a separator character and   *)
(* a fractional digit string (one digit here; `ex` is the E-exponent that  *)
(* only the thinning pattern captures, 0 elsewhere).                       *)
(***************************************************************************)
Numeral(ip, sep, fp, ex) == [ip |-> ip, sep |-> sep, fp |-> fp, ex |-> ex]

Dec(ip, fp) == Numeral(ip, ".", fp, 0)

NoNumeral == Numeral(0, "", 0, 0)

\* Python's float() on a captured numeral: a value, or ValueError when the
\* separator the pattern let through is not a decimal point.
float(num) ==
    LET abs == IF num.ip < 0 THEN -num.ip ELSE num.ip
        mag == abs * FixOne + num.fp * (FixOne \div 10)
    IN  IF num.sep = "."
        THEN [ok |-> TRUE,
              v  |-> Scale10(IF num.ip < 0 THEN -mag ELSE mag, num.ex)]
        ELSE [ok |-> FALSE, v |-> 0]

\* str.lower() on the particle names of the bounded inputs.
lower(s) ==
    CASE s = "Proton" -> "proton"
      [] s = "Iron"   -> "iron"
      [] OTHER        -> s

(***************************************************************************)
(* loader.load_properties                                                  *)
(***************************************************************************)
\* One re.search match: the pattern that matched and its groups.
Match(pat, g1, g2, unit) == [pat |-> pat, g1 |-> g1, g2 |-> g2, unit |-> unit]

\* The patterns, in the order the loop body tries them on each line.
Patterns ==
    << "energy", "particle", "zenith", "azimuth", "lat_lon", "ground",
       "injection", "intensity", "mag_inc", "mag_dec", "dt", "rindex",
       "thinning", "xmax" >>

\* The keys each pattern writes.
KeysOf(pat) ==
    CASE pat = "lat_lon"   -> {"lat", "lon"}
      [] pat = "intensity" -> {"mag_str"}
      [] OTHER             -> {pat}

EmptyProps == [k \in {} |-> 0]

Put(props, key, val) == (key :> val) @@ props

\* parse_energy with a default exponent for unknown units (a plausible slip).
parse_energy_default(energy, unit) ==
    LET exponent == IF unit = "PeV" THEN 15
                    ELSE IF unit = "ZeV" THEN 21
                    ELSE 18
    IN  [status |-> "ok", v |-> Scale10(energy, exponent - 18)]

\* parse_energy with the PeV exponent of TeV (a plausible slip).
parse_energy_wrong_exponent(energy, unit) ==
    LET bound    == unit \in {"PeV", "EeV", "ZeV"}
        exponent == IF unit = "PeV" THEN 12
                    ELSE IF unit = "EeV" THEN 18
                    ELSE 21
    IN  IF bound
        THEN [status |-> "ok", v |-> Scale10(energy, exponent - 18)]
        ELSE [status |-> "UnboundLocalError", v |-> 0]

\* parse_energy scaling by 10^(18 - exponent) (a plausible sign slip).
parse_energy_inverted(energy, unit) ==
    LET bound    == unit \in {"PeV", "EeV", "ZeV"}
        exponent == IF unit = "PeV" THEN 15
                    ELSE IF unit = "EeV" THEN 18
                    ELSE 21
    IN  IF bound
        THEN [status |-> "ok", v |-> Scale10(energy, 18 - exponent)]
        ELSE [status |-> "UnboundLocalError", v |-> 0]

\* The nested parse_energy: `exponent` is assigned only for the three known
\* units, so any other unit reads an unbound local.
parse_energy(energy, unit) ==
    LET bound    == unit \in {"PeV", "EeV", "ZeV"}
        exponent == IF unit = "PeV" THEN 15
                    ELSE IF unit = "EeV" THEN 18
                    ELSE 21
    IN  IF bound
        THEN [status |-> "ok", v |-> Scale10(energy, exponent - 18)]
        ELSE [status |-> "UnboundLocalError", v |-> 0]

\* The match of pattern `pat` on `line` (re.search returns at most one).
MatchOf(line, pat) == CHOOSE m \in line : m.pat = pat

Matches(line, pat) == \E m \in line : m.pat = pat

\* The `if <pat>_match:` block of pattern `pat` on `line`: the keys it
\* assigns in props, or the exception it raises.  No block reads props, and
\* no two blocks assign the same key.
PatternBlock(line, pat) ==
    IF ~Matches(line, pat) THEN [status |-> "ok", writes |-> EmptyProps]
    ELSE
      LET m == MatchOf(line, pat) IN
      IF pat = "particle"
      THEN [status |-> "ok", writes |-> Put(EmptyProps, "particle", lower(m.unit))]
      ELSE
        LET f1 == float(m.g1) IN
        IF ~f1.ok THEN [status |-> "ValueError", writes |-> EmptyProps]
        ELSE IF pat = "energy"
        THEN LET e == parse_energy(f1.v, m.unit) IN
             IF e.status # "ok"
             THEN [status |-> e.status, writes |-> EmptyProps]
             ELSE [status |-> "ok", writes |-> Put(EmptyProps, "energy", e.v)]
        ELSE IF pat = "lat_lon"
        THEN LET f2 == float(m.g2) IN
             IF ~f2.ok THEN [status |-> "ValueError", writes |-> EmptyProps]
             ELSE [status |-> "ok",
                   writes |-> Put(Put(EmptyProps, "lat", f1.v), "lon", f2.v)]
        ELSE IF pat = "intensity"
        THEN [status |-> "ok", writes |-> Put(EmptyProps, "mag_str", f1.v)]
        ELSE [status |-> "ok", writes |-> Put(EmptyProps, pat, f1.v)]

\* The body of `for line in f:` on one line: the blocks run in the order of
\* Patterns; the first one that raises ends the call, otherwise every
\* block's assignments are made.
LineBody(line) ==
    Bind({ << i, PatternBlock(line, Patterns[i]) >> : i \in 1..Len(Patterns) },
         LAMBDA blocks :
            LET raising == { b \in blocks : b[2].status # "ok" }
                first   == CHOOSE b \in raising : \A c \in raising : b[1] <= c[1]
                written == UNION { DOMAIN b[2].writes : b \in blocks }
                block(k) == CHOOSE b \in blocks : k \in DOMAIN b[2].writes
            IN  IF raising # {}
                THEN [status |-> first[2].status, writes |-> EmptyProps]
                ELSE [status |-> "ok",
                      writes |-> [k \in written |-> block(k)[2].writes[k]]])

\* The loop with assignments that keep a key's first value (a plausible
\* slip: setdefault instead of item assignment).
RECURSIVE ScanLinesKeepFirst(_, _, _)
ScanLinesKeepFirst(acc, lines, i) ==
    IF i > Len(lines) \/ acc.status # "ok" THEN acc
    ELSE Bind(LineBody(lines[i]),
              LAMBDA b :
                 Bind([status |-> b.status, props |-> acc.props @@ b.writes],
                      LAMBDA next : ScanLinesKeepFirst(next, lines, i + 1)))

\* `for line in f:` in file order; later assignments overwrite earlier ones.
RECURSIVE ScanLines(_, _, _)
ScanLines(acc, lines, i) ==
    IF i > Len(lines) \/ acc.status # "ok" THEN acc
    ELSE Bind(LineBody(lines[i]),
              LAMBDA b :
                 Bind([status |-> b.status, props |-> b.writes @@ acc.props],
                      LAMBDA next : ScanLines(next, lines, i + 1)))

\* A dictionary that starts with a default entry (a plausible slip).
InitialPropsWithDefault == ("thinning" :> 0)

\* props = {}
InitialProps == [k \in {} |-> 0]

\* load_properties(sim, directory) on the report file.  An exception leaves
\* the caller without a mapping.
load_properties(file) ==
    IF ~file.exists
    THEN [status |-> "FileNotFoundError", props |-> EmptyProps]
    ELSE Bind(ScanLines([status |-> "ok", props |-> InitialProps],
                        file.lines, 1),
              LAMBDA r : IF r.status = "ok" THEN r
                         ELSE [status |-> r.status, props |-> EmptyProps])

(***************************************************************************)
(* Bounded inputs of load_properties.                                      *)
(***************************************************************************)
Units == {"PeV", "EeV", "ZeV", "GeV"}

Magnitudes == {Dec(1, 0), Dec(10, 0), Dec(2, 5)}

EnergyLine(num, unit) == {Match("energy", num, NoNumeral, unit)}

ThinningLine == {Match("thinning", Numeral(1, ".", 0, -4), NoNumeral, "")}

ZenithLine(num) == {Match("zenith", num, NoNumeral, "")}

AzimuthLine == {Match("azimuth", Dec(0, 0), NoNumeral, "")}

LatLonLine == {Match("lat_lon", Dec(-35, 2), Dec(-69, 2), "")}

GroundLine == {Match("ground", Dec(1400, 0), NoNumeral, "")}

ParticleLine == {Match("particle", NoNumeral, NoNumeral, "Proton")}

\* "Intensity: 24.0 uT  I: -35.0 deg  D: 3.0 deg": three patterns match.
GeomagneticLine ==
    { Match("intensity", Dec(24, 0), NoNumeral, ""),
      Match("mag_inc", Dec(-35, 0), NoNumeral, ""),
      Match("mag_dec", Dec(3, 0), NoNumeral, "") }

\* A line no pattern matches.
OtherLine == {}

LineKinds ==
    { EnergyLine(n, u) : n \in Magnitudes, u \in Units }
    \cup { EnergyLine(Numeral(10, ",", 0, 0), "EeV") }
    \cup { ZenithLine(Dec(53, 4)), ZenithLine(Dec(30, 0)),
           ZenithLine(Numeral(53, ",", 4, 0)) }
    \cup { ThinningLine, GeomagneticLine, ParticleLine, LatLonLine, OtherLine }

Reports ==
    UNION { [1..n -> LineKinds] : n \in 0..MaxLines }

NoCall == [status |-> "none", props |-> [k \in {} |-> 0]]

NoFile == [exists |-> FALSE]

NoWaveCall == [status |-> "none", src |-> "none", data |-> << >>]

\* No Task object has been constructed.
NoTask ==
    [obj |-> "none", process |-> "None", child |-> "none", stdin |-> "none",
     verbose |-> FALSE, directory |-> << >>, pipe |-> << >>, echo |-> << >>,
     calls |-> 0, ret |-> [op |-> "none", status |-> "none"]]

\* No dataset: what a variable holds before any Dataset is bound to it.
NoDataset ==
    [name |-> "", directory |-> "", attrs |-> [k \in {} |-> 0], dt |-> 0,
     time |-> << >>, waveforms |-> << >>, locations |-> << >>]

\* No <sim>.nc file.
NoNetCDF == [exists |-> FALSE, dataset |-> NoDataset]

\* `resample` and `trim` left at None, and an argument given as `value`.
NoResample == [given |-> FALSE, value |-> 0]

NoTrim == [given |-> FALSE, value |-> << 0, 0 >>]

Given(value) == [given |-> TRUE, value |-> value]

NoDatasetCall ==
    [status |-> "none", src |-> "none", none |-> FALSE, dataset |-> NoDataset,
     resample |-> NoResample, trim |-> NoTrim]

\* No units attached to a table, and no table at all.
NoUnits == [depth |-> "", length |-> "", time |-> "", angle |-> "", energy |-> ""]

NoTable ==
    [dims |-> << >>, level |-> << >>, quantity |-> << >>, values |-> << >>,
     units |-> NoUnits]

NoTableCall ==
    [op |-> "none", status |-> "none", value |-> "", table |-> NoTable,
     message |-> << >>]

(***************************************************************************)
(* The load_properties specification: a report is on disk (or not) and     *)
(* the caller loads it.                                                    *)
(***************************************************************************)
InitProps ==
    /\ tret = NoTableCall
    /\ task = NoTask
    /\ nc = NoNetCDF
    /\ xret = NoDatasetCall
    /\ sry \in {[exists |-> TRUE, lines |-> r] : r \in Reports}
              \cup {[exists |-> FALSE, lines |-> << >>]}
    /\ pret = NoCall
    /\ raw = NoFile
    /\ cache = NoFile
    /\ wret = NoWaveCall
    /\ tfile = NoFile

CallLoadProperties ==
    /\ pret' = load_properties(sry)
    /\ UNCHANGED <<sry, raw, cache, wret, tfile, tret, task, nc, xret>>

NextProps == CallLoadProperties

SpecProps == InitProps /\ [][NextProps]_vars

(***************************************************************************)
(* Claims about load_properties (checked under SpecProps).                 *)
(***************************************************************************)
AllKeys ==
    { "energy", "particle", "zenith", "azimuth", "lat", "lon", "ground",
      "injection", "mag_str", "mag_inc", "mag_dec", "dt", "rindex",
      "thinning", "xmax" }

KnownUnits == {"PeV", "EeV", "ZeV"}

Called == pret.status # "none"

Returned == pret.status = "ok"

\* Some line of the report matched a pattern that writes key k.
LabelFound(k) ==
    \E i \in 1..Len(sry.lines) : \E m \in sry.lines[i] : k \in KeysOf(m.pat)

\* The report holds a matched line the parse cannot digest.
HasMalformedNumeral ==
    \E i \in 1..Len(sry.lines) : \E m \in sry.lines[i] :
        m.pat # "particle" /\ (m.g1.sep # "." \/ (m.pat = "lat_lon" /\ m.g2.sep # "."))

HasUnknownUnit ==
    \E i \in 1..Len(sry.lines) : \E m \in sry.lines[i] :
        m.pat = "energy" /\ m.unit \notin KnownUnits

EnergyLines == { i \in 1..Len(sry.lines) : Matches(sry.lines[i], "energy") }

\* The match of the last primary-energy line of the report.
LastEnergy ==
    LET last == CHOOSE i \in EnergyLines : \A j \in EnergyLines : j <= i
    IN  MatchOf(sry.lines[last], "energy")

\* The captured magnitude as a fixed-point number, digit by digit.
Magnitude(num) == num.ip * Pow10(4) + num.fp * Pow10(3)

\* C5: a key is in the mapping load_properties returns iff some line of the
\* report matched that key's pattern; a label that is absent (for instance
\* "Thinning energy:") never makes the call raise: the call raises only on
\* a missing file, an unknown energy unit or a malformed numeral.
C5_PropertyPresence ==
    /\ Returned =>
          \A k \in AllKeys : (k \in DOMAIN pret.props) <=> LabelFound(k)
    /\ Returned => DOMAIN pret.props \subseteq AllKeys
    /\ (Called /\ sry.exists /\ ~HasUnknownUnit /\ ~HasMalformedNumeral)
          => Returned
    /\ (Called /\ sry.exists /\ ~LabelFound("thinning")
           /\ ~HasUnknownUnit /\ ~HasMalformedNumeral)
          => (Returned /\ "thinning" \notin DOMAIN pret.props)

\* A report with other labels but no thinning line was loaded.
C5_Witness ==
    /\ Returned
    /\ ~LabelFound("thinning")
    /\ LabelFound("energy") /\ LabelFound("mag_inc")
    /\ "thinning" \notin DOMAIN pret.props
    /\ "mag_inc" \in DOMAIN pret.props

\* C6: the returned energy is magnitude * 10^(e-18) of the (last) primary
\* energy line, e = 15 for PeV, 18 for EeV, 21 for ZeV; 1.0 EeV gives 1.0.
C6_EnergyConversion ==
    (Returned /\ EnergyLines # {}) =>
        LET m == LastEnergy
            e == pret.props["energy"]
        IN  /\ m.unit \in KnownUnits
            /\ m.unit = "PeV" => e * 1000 = Magnitude(m.g1)
            /\ m.unit = "EeV" => e = Magnitude(m.g1)
            /\ m.unit = "ZeV" => e = Magnitude(m.g1) * 1000
            /\ (m.unit = "EeV" /\ m.g1 = Dec(1, 0)) => e = Pow10(4)

\* 2.5 PeV was loaded as 0.0025.
C6_Witness ==
    /\ Returned /\ EnergyLines # {}
    /\ LastEnergy.unit = "PeV" /\ LastEnergy.g1 = Dec(2, 5)
    /\ pret.props["energy"] = 25

\* C7 as stated: magnitude 10.0 with unit PeV yields energy = 1e-3.
C7_EnergyExampleAsStated ==
    (Returned /\ EnergyLines # {}
       /\ LastEnergy.unit = "PeV" /\ LastEnergy.g1 = Dec(10, 0))
    => pret.props["energy"] = FixOne \div 1000

\* C7 amended: magnitude 10.0 with unit PeV yields energy = 1e-2
\* (10.0 * 10^(15-18)).
C7_EnergyExample ==
    (Returned /\ EnergyLines # {}
       /\ LastEnergy.unit = "PeV" /\ LastEnergy.g1 = Dec(10, 0))
    => pret.props["energy"] = FixOne \div 100

\* A report whose energy line reads 10.0 PeV was loaded.
C7_Witness ==
    /\ Returned /\ EnergyLines # {}
    /\ LastEnergy.unit = "PeV" /\ LastEnergy.g1 = Dec(10, 0)
    /\ "energy" \in DOMAIN pret.props

\* C8: when a primary-energy line carries a unit other than PeV, EeV, ZeV
\* the call raises and returns no mapping (so no energy value is produced
\* from a default exponent); with well-formed numerals the error is the
\* unbound `exponent`.
C8_UnitError ==
    (Called /\ sry.exists /\ HasUnknownUnit) =>
        /\ pret.status \in {"UnboundLocalError", "ValueError"}
        /\ DOMAIN pret.props = {}
        /\ ~HasMalformedNumeral => pret.status = "UnboundLocalError"

\* A report with a GeV energy line after a valid zenith line was loaded.
C8_Witness ==
    /\ Called /\ sry.exists /\ HasUnknownUnit /\ ~HasMalformedNumeral
    /\ LabelFound("zenith")
    /\ pret.status = "UnboundLocalError"

\* The pattern whose block assigns key k.
PatternOf(k) ==
    CASE k \in {"lat", "lon"} -> "lat_lon"
      [] k = "mag_str"         -> "intensity"
      [] OTHER                 -> k

\* The lines of the report that match the pattern of key k.
LinesOf(k) == { i \in 1..Len(sry.lines) : Matches(sry.lines[i], PatternOf(k)) }

LastLineOf(k) == CHOOSE i \in LinesOf(k) : \A j \in LinesOf(k) : j <= i

\* A report that holds nothing but the match of k's pattern on line i.
OnlyMatch(k, i) ==
    [exists |-> TRUE, lines |-> << {MatchOf(sry.lines[i], PatternOf(k))} >>]

\* C21: when a label occurs on several lines of the report, the value
\* returned for its key is the one parsed from the last matching line in
\* file order, and matches for one key never change the value of another
\* key: every returned value is what the last line matching that key's
\* pattern yields on its own, whatever the other lines and matches are.
C21_LastMatchWins ==
    Returned =>
        \A k \in DOMAIN pret.props :
            /\ LinesOf(k) # {}
            /\ pret.props[k] = load_properties(OnlyMatch(k, LastLineOf(k))).props[k]

\* A report with two primary-energy lines and two zenith lines of different
\* values, interleaved, was loaded; each key holds its later value.
C21_Witness ==
    /\ Returned
    /\ Len(sry.lines) = 3
    /\ sry.lines[1] = EnergyLine(Dec(1, 0), "EeV")
    /\ sry.lines[2] = ZenithLine(Dec(53, 4))
    /\ sry.lines[3] = EnergyLine(Dec(2, 5), "PeV")
    /\ pret.props["energy"] = 25
    /\ pret.props["zenith"] = 534000

(***************************************************************************)
(* table.parse_table_type and table.load_table.  The table file's text is  *)
(* a sequence of characters.                                               *)
(***************************************************************************)
\* "TABLE 5"
MarkerGround ==
    << "T", "A", "B", "L", "E", " ", "5" >>

\* "Longitudinal development: Energy"
MarkerLongEnergy ==
    << "L", "o", "n", "g", "i", "t", "u", "d", "i", "n", "a", "l", " ",
       "d", "e", "v", "e", "l", "o", "p", "m", "e", "n", "t", ":", " ",
       "E", "n", "e", "r", "g", "y" >>

\* "Longitudinal development:"
MarkerLong ==
    << "L", "o", "n", "g", "i", "t", "u", "d", "i", "n", "a", "l", " ",
       "d", "e", "v", "e", "l", "o", "p", "m", "e", "n", "t", ":" >>

\* "Lateral distribution:"
MarkerLateral ==
    << "L", "a", "t", "e", "r", "a", "l", " ", "d", "i", "s", "t", "r",
       "i", "b", "u", "t", "i", "o", "n", ":" >>

\* "Unweighted lateral distribution:"
MarkerUnweighted ==
    << "U", "n", "w", "e", "i", "g", "h", "t", "e", "d", " ", "l", "a",
       "t", "e", "r", "a", "l", " ", "d", "i", "s", "t", "r", "i", "b",
       "u", "t", "i", "o", "n", ":" >>

\* "Energy distribution"
MarkerEnergy ==
    << "E", "n", "e", "r", "g", "y", " ", "d", "i", "s", "t", "r", "i",
       "b", "u", "t", "i", "o", "n" >>

\* " Energy"
ChunkEnergyWord ==
    << " ", "E", "n", "e", "r", "g", "y" >>

\* f.read()[0:600]
PrefixLen == 600

Take(text, n) == IF Len(text) <= n THEN text ELSE SubSeq(text, 1, n)

\* re.search(marker, contents) for a marker without metacharacters.
Search(marker, contents) ==
    \E i \in 1..(Len(contents) - Len(marker) + 1) :
        \A j \in 1..Len(marker) : contents[i + j - 1] = marker[j]

TableReturn(tag) ==
    [status |-> "ok", value |-> tag, table |-> NoTable, message |-> << >>]

\* A call that returns a DataArray.
DataArrayReturn(array) ==
    [status |-> "ok", value |-> "", table |-> array, message |-> << >>]

TableRaise(kind, message) ==
    [status |-> kind, value |-> "", table |-> NoTable, message |-> message]

\* parse_table_type with the two "Longitudinal development" tests swapped
\* (a plausible slip: the general marker tested before the specific one).
parse_table_type_general_first(filename, file) ==
    LET contents == Take(file.text, PrefixLen) IN
    IF Search(MarkerGround, contents) THEN TableReturn("ground")
    ELSE IF Search(MarkerLong, contents) THEN TableReturn("long")
    ELSE IF Search(MarkerLongEnergy, contents) THEN TableReturn("energy")
    ELSE IF Search(MarkerLateral, contents) THEN TableReturn("lateral")
    ELSE IF Search(MarkerUnweighted, contents) THEN TableReturn("lateral")
    ELSE IF Search(MarkerEnergy, contents) THEN TableReturn("energy")
    ELSE TableRaise("ValueError", << "Unknown table type." >>)

\* parse_table_type(filename) on the file that path names.
parse_table_type(filename, file) ==
    LET contents == Take(file.text, PrefixLen) IN
    IF Search(MarkerGround, contents) THEN TableReturn("ground")
    ELSE IF Search(MarkerLongEnergy, contents) THEN TableReturn("energy")
    ELSE IF Search(MarkerLong, contents) THEN TableReturn("long")
    ELSE IF Search(MarkerLateral, contents) THEN TableReturn("lateral")
    ELSE IF Search(MarkerUnweighted, contents) THEN TableReturn("lateral")
    ELSE IF Search(MarkerEnergy, contents) THEN TableReturn("energy")
    ELSE IF Search(MarkerEnergy, contents) THEN TableReturn("energy")
    ELSE TableRaise("ValueError", << "Unknown table type." >>)

(***************************************************************************)
(* numpy arrays of the table loader: [ndim, rows]; a 1-D array is one row. *)
(***************************************************************************)
\* np.loadtxt(filename) with the default ndmin=0: a file of one data row
\* (or none) comes back 1-D.
loadtxt(rows) ==
    IF Len(rows) = 0 THEN [ndim |-> 1, rows |-> << << >> >>]
    ELSE IF Len(rows) = 1 THEN [ndim |-> 1, rows |-> rows]
    ELSE [ndim |-> 2, rows |-> rows]

Arange(n) == [i \in 1..n |-> i - 1]

DropFirst(row) == SubSeq(row, 2, Len(row))

\* The 2-D table built from data[:, :-1], i.e. keeping the index column and
\* losing the last quantity (a plausible slicing slip).
LevelQuantityArrayKeepIndex(data, names) ==
    IF data.ndim # 2
    THEN TableRaise("IndexError", << "too many indices for array" >>)
    ELSE IF Len(data.rows[1]) - 1 # Len(names)
    THEN TableRaise("ValueError", << "conflicting sizes for dimension" >>)
    ELSE DataArrayReturn(
           [dims     |-> << "level", "quantity" >>,
            level    |-> Arange(Len(data.rows)),
            quantity |-> names,
            values   |-> [l \in 1..Len(data.rows) |->
                             SubSeq(data.rows[l], 1, Len(data.rows[l]) - 1)],
            units    |-> NoUnits])

\* DataArray(data[:, 1:], dims=["level", "quantity"], coords={level:
\* arange(shape[0]), quantity: names}) as the three 2-D parsers build it.
LevelQuantityArray(data, names) ==
    IF data.ndim # 2
    THEN TableRaise("IndexError", << "too many indices for array" >>)
    ELSE IF Len(data.rows[1]) - 1 # Len(names)
    THEN TableRaise("ValueError", << "conflicting sizes for dimension" >>)
    ELSE DataArrayReturn(
           [dims     |-> << "level", "quantity" >>,
            level    |-> Arange(Len(data.rows)),
            quantity |-> names,
            values   |-> [l \in 1..Len(data.rows) |-> DropFirst(data.rows[l])],
            units    |-> NoUnits])

parse_longitudinal(data) ==
    LevelQuantityArray(data, << "depth", "mean", "rms", "stdev", "min", "max" >>)

parse_lateral(data) ==
    LevelQuantityArray(data, << "R", "mean", "rms", "stdev", "min", "max" >>)

parse_energy_table(data) ==
    LevelQuantityArray(data, << "energy", "mean", "rms", "stdev", "min", "max" >>)

\* DataArray(data[1:], dims=["quantity"], coords={quantity: [number,
\* energy, entries]}).
parse_ground(data) ==
    LET names == << "number", "energy", "entries" >> IN
    IF data.ndim # 1
    THEN TableRaise("ValueError", << "different number of dimensions" >>)
    ELSE IF Len(data.rows[1]) - 1 # Len(names)
    THEN TableRaise("ValueError", << "conflicting sizes for dimension" >>)
    ELSE DataArrayReturn(
           [dims     |-> << "quantity" >>,
            level    |-> << >>,
            quantity |-> names,
            values   |-> << DropFirst(data.rows[1]) >>,
            units    |-> NoUnits])

\* data.attrs["units"]
UnitsTable ==
    [depth |-> "g/cm^2", length |-> "m", time |-> "ns", angle |-> "deg",
     energy |-> "GeV"]

\* The path op.abspath(op.join(directory, sim, f"{sim}.t{table}")).
TableId == "1001"

TableFilename == "/runs/sim/sim.t1001"

\* load_table past its existence check: classify, read the numbers, build
\* the table of the classified type and attach the units.
LoadExistingTable(filename, file) ==
    LET table_type == parse_table_type(filename, file) IN
    IF table_type.status # "ok" THEN table_type
    ELSE
      LET data0 == loadtxt(file.rows)
          data  == IF table_type.value = "long" THEN parse_longitudinal(data0)
                   ELSE IF table_type.value = "lateral" THEN parse_lateral(data0)
                   ELSE IF table_type.value = "energy" THEN parse_energy_table(data0)
                   ELSE IF table_type.value = "ground" THEN parse_ground(data0)
                   ELSE TableRaise("ValueError",
                                   << "Unknown table type: ", table_type.value >>)
      IN  IF data.status # "ok" THEN data
          ELSE [data EXCEPT !.table.units = UnitsTable]

\* load_table without its existence check: the missing file is found by the
\* open() of the classifier.
load_table_unchecked(filename, file) ==
    IF ~file.exists
    THEN TableRaise("FileNotFoundError", << filename >>)
    ELSE LoadExistingTable(filename, file)

\* load_table(sim, table, directory) on the file that path names.
load_table(filename, file) ==
    IF ~file.exists
    THEN TableRaise("ValueError",
                    << "Unable to load t", TableId, " for ", filename >>)
    ELSE LoadExistingTable(filename, file)

(***************************************************************************)
(* Bounded inputs of the table loader.                                     *)
(***************************************************************************)
\* Most chunks a table file's heading is put together from.
MaxChunks == 3

\* Most data rows of a table file.
MaxLevels == 2

Chunks ==
    { MarkerGround, MarkerLong, ChunkEnergyWord, MarkerLateral,
      MarkerUnweighted, MarkerEnergy }

RECURSIVE Concat(_, _)
Concat(chunks, i) ==
    IF i > Len(chunks) THEN << >> ELSE chunks[i] \o Concat(chunks, i + 1)

ChunkSeqs(n) == UNION { [1..k -> Chunks] : k \in 0..n }

\* Leading comment characters that push the end of a heading beyond the
\* prefix parse_table_type reads.
Lead == [i \in 1..(PrefixLen - 30) |-> "#"]

\* Headings that start the file, and shorter ones behind the lead.
Headings ==
    { Concat(cs, 1) : cs \in ChunkSeqs(MaxChunks) }
    \cup { Lead \o Concat(cs, 1) : cs \in ChunkSeqs(MaxChunks - 1) }

\* Data rows: an index column, then `ncols - 1` distinct quantities.
DataRows(nrows, ncols) ==
    [l \in 1..nrows |-> [c \in 1..ncols |-> IF c = 1 THEN l ELSE 10 * l + c]]

TableFiles ==
    { [exists |-> TRUE, text |-> h, rows |-> DataRows(n, c)] :
        h \in Headings, n \in 1..MaxLevels, c \in {4, 7} }
    \cup { [exists |-> FALSE, text |-> << >>, rows |-> << >>] }

(***************************************************************************)
(* The table specification: a table file is on disk (or not) and the       *)
(* caller classifies or loads it.                                          *)
(***************************************************************************)
InitTable ==
    /\ tfile \in TableFiles
    /\ tret = NoTableCall
    /\ task = NoTask
    /\ nc = NoNetCDF
    /\ xret = NoDatasetCall
    /\ sry = NoFile
    /\ pret = NoCall
    /\ raw = NoFile
    /\ cache = NoFile
    /\ wret = NoWaveCall

\* parse_table_type opens the file itself: a missing file is an OSError.
CallParseTableType ==
    /\ tret' = [op |-> "parse_table_type"] @@
               (IF tfile.exists THEN parse_table_type(TableFilename, tfile)
                ELSE TableRaise("FileNotFoundError", << TableFilename >>))
    /\ UNCHANGED <<tfile, sry, pret, raw, cache, wret, task, nc, xret>>

CallLoadTable ==
    /\ tret' = [op |-> "load_table"] @@ load_table(TableFilename, tfile)
    /\ UNCHANGED <<tfile, sry, pret, raw, cache, wret, task, nc, xret>>

\* The raw matrix of the table file's data rows, kept 2-D: shape (L, ncols).
RawMatrix == [ndim |-> 2, rows |-> tfile.rows]

\* parse_longitudinal(data) called on a raw matrix.
CallParseLongitudinal ==
    /\ tfile.exists
    /\ tret' = [op |-> "parse_longitudinal"] @@ parse_longitudinal(RawMatrix)
    /\ UNCHANGED <<tfile, sry, pret, raw, cache, wret, task, nc, xret>>

\* parse_lateral(data) called on a raw matrix.
CallParseLateral ==
    /\ tfile.exists
    /\ tret' = [op |-> "parse_lateral"] @@ parse_lateral(RawMatrix)
    /\ UNCHANGED <<tfile, sry, pret, raw, cache, wret, task, nc, xret>>

\* parse_energy(data) called on a raw matrix.
CallParseEnergy ==
    /\ tfile.exists
    /\ tret' = [op |-> "parse_energy"] @@ parse_energy_table(RawMatrix)
    /\ UNCHANGED <<tfile, sry, pret, raw, cache, wret, task, nc, xret>>

NextTable ==
    \/ CallParseTableType
    \/ CallLoadTable
    \/ CallParseLongitudinal
    \/ CallParseLateral
    \/ CallParseEnergy

SpecTable == InitTable /\ [][NextTable]_vars

(***************************************************************************)
(* The table-reload specification: the table is loaded any number of       *)
(* times, and the exported table text file may be deleted between loads.   *)
(* load_table writes no file.                                              *)
(***************************************************************************)
\* The table text file <sim>.t<table> is deleted.
RemoveTableFile ==
    /\ tfile.exists
    /\ tfile' = [exists |-> FALSE, text |-> << >>, rows |-> << >>]
    /\ UNCHANGED <<tret, sry, pret, raw, cache, wret, task, nc, xret>>

NextTableReload == CallLoadTable \/ RemoveTableFile

SpecTableReload == InitTable /\ [][NextTableReload]_vars

\* C15: once a load of the table has succeeded, a later load of the same
\* simulation and table is served the same table from a persisted artifact,
\* without the table text file being read again (so also when that file is
\* gone).
C15_TableCacheArtifact ==
    [][(tret.op = "load_table" /\ tret.status = "ok" /\ CallLoadTable)
          => (tret'.status = "ok" /\ tret'.table = tret.table)]_vars

(***************************************************************************)
(* Claims about the table classifier (checked under SpecTable).            *)
(***************************************************************************)
\* The markers with their tags, in the order the claim lists them.
MarkerOrder ==
    << << MarkerGround, "ground" >>, << MarkerLongEnergy, "energy" >>,
       << MarkerLong, "long" >>, << MarkerLateral, "lateral" >>,
       << MarkerUnweighted, "lateral" >>, << MarkerEnergy, "energy" >> >>

\* The markers that occur in the first 600 characters of the table file.
PresentMarkers ==
    { k \in 1..Len(MarkerOrder) :
        Search(MarkerOrder[k][1], Take(tfile.text, 600)) }

FirstPresent == CHOOSE k \in PresentMarkers : \A j \in PresentMarkers : k <= j

Classified == tret.op = "parse_table_type" /\ tfile.exists

\* C9: parse_table_type returns the tag of the first marker present, in the
\* order ground, energy (longitudinal), long, lateral, lateral (unweighted),
\* energy; a prefix holding both "Longitudinal development:" and
\* "Longitudinal development: Energy" is never classified long, and is
\* classified energy unless the earlier "TABLE 5" marker is present too.
C9_OrderedFirstMatch ==
    (Classified /\ PresentMarkers # {}) =>
        /\ tret.status = "ok"
        /\ tret.value = MarkerOrder[FirstPresent][2]
        /\ ({2, 3} \subseteq PresentMarkers) => tret.value # "long"
        /\ ({2, 3} \subseteq PresentMarkers /\ 1 \notin PresentMarkers)
              => tret.value = "energy"

\* A prefix with both longitudinal markers and no "TABLE 5" was classified.
C9_Witness ==
    /\ Classified
    /\ {2, 3} \subseteq PresentMarkers /\ 1 \notin PresentMarkers
    /\ tret.value = "energy"

Range(f) == { f[i] : i \in DOMAIN f }

\* C10: when no known marker occurs in the prefix, classification fails
\* with an error whose message holds the path of the offending file.
C10_ClassificationErrorNamesFile ==
    (tret.op \in {"parse_table_type", "load_table"} /\ tfile.exists
        /\ PresentMarkers = {})
    => (tret.status = "ValueError" /\ TableFilename \in Range(tret.message))

\* A parser of the 2-D table types was called on a raw matrix of 7 columns.
ParsedMatrix(op) ==
    tret.op = op /\ tfile.exists /\ Len(tfile.rows[1]) = 7

\* The table has L levels 0..L-1, the given quantity names, and cell (l, q)
\* holds raw column q + 1 of row l.
Structured(names) ==
    /\ tret.status = "ok"
    /\ tret.table.dims = << "level", "quantity" >>
    /\ Len(tret.table.level) = Len(tfile.rows)
    /\ \A l \in 1..Len(tfile.rows) : tret.table.level[l] = l - 1
    /\ tret.table.quantity = names
    /\ Len(tret.table.values) = Len(tfile.rows)
    /\ \A l \in 1..Len(tfile.rows) :
          /\ Len(tret.table.values[l]) = 6
          /\ \A q \in 1..6 : tret.table.values[l][q] = tfile.rows[l][q + 1]

\* C11: a longitudinal raw matrix of shape (L, 7) gives a table with levels
\* 0..L-1, quantities depth, mean, rms, stdev, min, max and cell (l, q)
\* equal to raw column q + 1 of row l; the lateral and energy parsers give
\* the same table with R, respectively energy, as first quantity name.
C11_TableStructuring ==
    /\ ParsedMatrix("parse_longitudinal") =>
          Structured(<< "depth", "mean", "rms", "stdev", "min", "max" >>)
    /\ ParsedMatrix("parse_lateral") =>
          Structured(<< "R", "mean", "rms", "stdev", "min", "max" >>)
    /\ ParsedMatrix("parse_energy") =>
          Structured(<< "energy", "mean", "rms", "stdev", "min", "max" >>)

\* A longitudinal matrix of MaxLevels rows and 7 columns was structured.
C11_Witness ==
    /\ ParsedMatrix("parse_longitudinal")
    /\ Len(tfile.rows) = MaxLevels
    /\ tret.status = "ok"
    /\ tret.table.quantity[1] = "depth"

\* C12: load_table on a missing table file raises the ValueError of its own
\* existence check, whose message holds the attempted path; the error is not
\* one raised by the classifier's open() or by the numeric parser.
C12_MissingTableFile ==
    (tret.op = "load_table" /\ ~tfile.exists) =>
        /\ tret.status = "ValueError"
        /\ tret.message = << "Unable to load t", TableId, " for ", TableFilename >>
        /\ TableFilename \in Range(tret.message)

\* load_table was called for a table file that does not exist.
C12_Witness ==
    /\ tret.op = "load_table" /\ ~tfile.exists
    /\ tret.status = "ValueError"

(***************************************************************************)
(* loader.load_waveforms.  A row of timefresnel-root.dat is a 14-tuple     *)
(* (column c of the file is element c + 1).  The antenna column is held in *)
(* halves, so that an index that drifted off the integers (1.5) can be     *)
(* written down; every other column holds plain numbers.                   *)
(***************************************************************************)
Col(row, c) == row[c + 1]

\* int(raw[1, -1]) on the antenna column.
IntOfHalves(h) == h \div 2

\* raw[1, :] == (iant + 1): the positions of the rows of antenna iant + 1.
AntIdx(rows, iant) == { k \in 1..Len(rows) : Col(rows[k], 1) = 2 * (iant + 1) }

\* raw[c, antidx]: column c of the selected rows, in file order.
RECURSIVE Select(_, _, _, _)
Select(rows, c, antidx, k) ==
    IF k > Len(rows) THEN << >>
    ELSE (IF k \in antidx THEN << Col(rows[k], c) >> ELSE << >>)
         \o Select(rows, c, antidx, k + 1)

\* Conversion to the float32 of the record fields (round to nearest, ties
\* to even), for numbers below 2^25 in absolute value.
F32(x) ==
    LET a == IF x < 0 THEN -x ELSE x
        r == IF a <= 16777216 THEN a
             ELSE IF a % 2 = 0 THEN a
             ELSE IF (a + 1) % 4 = 0 THEN a + 1 ELSE a - 1
    IN  IF x < 0 THEN -r ELSE r

F32Seq(arr) == [j \in 1..Len(arr) |-> F32(arr[j])]

Zeros(n) == [j \in 1..n |-> 0]

\* __pad_or_cut keeping the last `length` samples (a plausible slip).
pad_or_cut_keep_last(arr, length) ==
    IF Len(arr) < length
    THEN arr \o Zeros(length - Len(arr))
    ELSE SubSeq(arr, Len(arr) - length + 1, Len(arr))

\* __pad_or_cut(arr, length)
\* __pad_or_cut padding in front of the samples (np.pad with the widths
\* swapped).
pad_or_cut_pad_front(arr, length) ==
    IF Len(arr) < length THEN Zeros(length - Len(arr)) \o arr
    ELSE SubSeq(arr, 1, length)

pad_or_cut(arr, length) ==
    IF Len(arr) < length
    THEN arr \o Zeros(length - Len(arr))
    ELSE SubSeq(arr, 1, length)

\* The common length rounded down (a plausible slip).
CommonLengthFloor(nrows, nantennas) == nrows \div nantennas

\* int(np.ceil(raw.shape[1] / nantennas))
CommonLength(nrows, nantennas) == (nrows + nantennas - 1) \div nantennas

\* The scalar properties copied into every record.
RecordKeys ==
    << "energy", "zenith", "azimuth", "lat", "lon", "ground", "mag_str",
       "mag_inc", "mag_dec" >>

\* One pass of `for iant in np.arange(0, nantennas)` on a complete input:
\* the record of antenna iant + 1, taking its position from antenna
\* `posant + 1` (the loop uses posant = iant).
Record(rows, props, iant, posant, length) ==
    LET antidx == AntIdx(rows, iant)
        posidx == AntIdx(rows, posant)
    IN  [energy  |-> F32(props["energy"]),
         zenith  |-> F32(props["zenith"]),
         azimuth |-> F32(props["azimuth"]),
         lat     |-> F32(props["lat"]),
         lon     |-> F32(props["lon"]),
         ground  |-> F32(props["ground"]),
         mag_str |-> F32(props["mag_str"]),
         mag_inc |-> F32(props["mag_inc"]),
         mag_dec |-> F32(props["mag_dec"]),
         x  |-> F32(Select(rows, 2, posidx, 1)[1]),
         y  |-> F32(Select(rows, 3, posidx, 1)[1]),
         z  |-> F32(Select(rows, 4, posidx, 1)[1]),
         t  |-> F32Seq(pad_or_cut(Select(rows, 5, antidx, 1), length)),
         Ex |-> F32Seq(pad_or_cut(Select(rows, 11, antidx, 1), length)),
         Ey |-> F32Seq(pad_or_cut(Select(rows, 12, antidx, 1), length)),
         Ez |-> F32Seq(pad_or_cut(Select(rows, 13, antidx, 1), length))]

\* The loop body taking every position from the first antenna (a plausible
\* slip: the selection of antenna 1 reused for the position columns).
LoopRecordFirstPosition(rows, props, iant, length) ==
    Record(rows, props, iant, 0, length)

\* The loop body for antenna iant + 1.
LoopRecord(rows, props, iant, length) == Record(rows, props, iant, iant, length)

WaveRaise(kind) == [status |-> kind, src |-> "parse", data |-> << >>]

\* The cache file after a call that never writes it.
SaveCacheNever(cachefile, data, write_cache) == cachefile

\* The cache file after a call that writes it whatever write_cache is.
SaveCacheAlways(cachefile, data, write_cache) == [exists |-> TRUE, data |-> data]

\* if write_cache: np.save(cachefile, data)
SaveCache(cachefile, data, write_cache) ==
    IF write_cache THEN [exists |-> TRUE, data |-> data] ELSE cachefile

\* load_waveforms past its cache test: read the dump and the report, build
\* the records, write the cache if asked to.  Gives what the call returns or
\* raises, and the cache file it leaves.
ParseWaveforms(rawfile, report, cachefile, write_cache) ==
    IF ~rawfile.exists
    THEN [ret |-> WaveRaise("OSError"), cache |-> cachefile]
    ELSE IF Len(rawfile.rows) <= 1
    THEN \* np.loadtxt gives a 1-D array: raw[1, -1] has too many indices
         [ret |-> WaveRaise("IndexError"), cache |-> cachefile]
    ELSE
      LET rows      == rawfile.rows
          nantennas == IntOfHalves(Col(rows[Len(rows)], 1))
      IN
      IF nantennas = 0
      THEN [ret |-> WaveRaise("ZeroDivisionError"), cache |-> cachefile]
      ELSE
        Bind(load_properties(report),
             LAMBDA p :
        LET length == CommonLength(Len(rows), nantennas)
            nokey  == \E i \in 1..Len(RecordKeys) :
                         RecordKeys[i] \notin DOMAIN p.props
            norows == \E iant \in 0..(nantennas - 1) : AntIdx(rows, iant) = {}
        IN
        IF p.status # "ok"
        THEN [ret |-> WaveRaise(p.status), cache |-> cachefile]
        ELSE IF nokey
        THEN \* props[key] in the first pass of the loop
             [ret |-> WaveRaise("KeyError"), cache |-> cachefile]
        ELSE IF norows
        THEN \* raw[2, antidx][0] on an antenna without rows
             [ret |-> WaveRaise("IndexError"), cache |-> cachefile]
        ELSE
          LET data == [i \in 1..nantennas |->
                          LoopRecord(rows, p.props, i - 1, length)]
          IN  [ret   |-> [status |-> "ok", src |-> "parse", data |-> data],
               cache |-> SaveCache(cachefile, data, write_cache)])

\* np.load(cachefile)
LoadCache(cachefile) ==
    [ret   |-> [status |-> "ok", src |-> "cache", data |-> cachefile.data],
     cache |-> cachefile]

\* load_waveforms that trusts the cache only in a call that may write it
\* (a plausible slip: the cache test put under `if write_cache`).
load_waveforms_cache_when_writing(rawfile, report, cachefile, write_cache) ==
    IF cachefile.exists /\ write_cache
    THEN LoadCache(cachefile)
    ELSE ParseWaveforms(rawfile, report, cachefile, write_cache)

\* load_waveforms(sim, directory, write_cache).
load_waveforms(rawfile, report, cachefile, write_cache) ==
    IF cachefile.exists
    THEN LoadCache(cachefile)
    ELSE ParseWaveforms(rawfile, report, cachefile, write_cache)

(***************************************************************************)
(* Bounded inputs of load_waveforms.                                       *)
(***************************************************************************)
\* Most rows of a raw dump.
MaxRows == 6

\* Most rows of a raw dump whose rows come in any order; a longer dump has
\* its rows in ascending antenna order, as the simulator writes them.
MixedRows == 4

\* Most rows of the raw dumps that are paired with every report.
ShortRows == 3

\* Largest antenna index written in a raw dump.
MaxAnt == 2

\* Antenna column values, in halves: 0, 1, ..., MaxAnt and the drifted 1.5.
AntValues == { 2 * a : a \in 0..MaxAnt } \cup { 3 }

\* Row k of a dump, for antenna value h: every cell differs from every
\* other cell of the dump; the Ez column holds numbers float32 rounds.
RowOf(k, h) ==
    [c \in 1..14 |->
        IF c = 2 THEN h
        ELSE IF c = 14 THEN 16777216 + k
        ELSE 100 * c + k]

Ascending(ants) == \A k \in 1..(Len(ants) - 1) : ants[k] <= ants[k + 1]

AntColumns ==
    UNION { [1..n -> AntValues] : n \in 0..MixedRows }
    \cup { ants \in UNION { [1..n -> AntValues] : n \in (MixedRows + 1)..MaxRows } :
              Ascending(ants) }

Dumps == { [k \in 1..Len(ants) |-> RowOf(k, ants[k])] : ants \in AntColumns }

FullReport ==
    << EnergyLine(Dec(1, 0), "EeV"), ZenithLine(Dec(53, 4)), AzimuthLine,
       LatLonLine, GroundLine, GeomagneticLine, ThinningLine >>

Without(lines, i) == SubSeq(lines, 1, i - 1) \o SubSeq(lines, i + 1, Len(lines))

\* Reports of the waveform runs: complete, without the zenith line, without
\* the thinning line, without the geomagnetic line, with an unknown unit.
WaveReports ==
    { FullReport, Without(FullReport, 2), Without(FullReport, 7),
      Without(FullReport, 6),
      << EnergyLine(Dec(1, 0), "GeV") >> \o Without(FullReport, 1) }

WaveInputs ==
    { << d, FullReport >> : d \in Dumps }
    \cup { << d, r >> : d \in { e \in Dumps : Len(e) <= ShortRows },
                        r \in WaveReports }

(***************************************************************************)
(* The waveform specification: the dump and the report are on disk (or     *)
(* not), there is no cache yet, and the caller loads the waveforms, with   *)
(* or without write_cache, any number of times.                            *)
(***************************************************************************)
InitWave ==
    /\ \E inp \in WaveInputs :
          /\ raw \in { [exists |-> TRUE, rows |-> inp[1]],
                       [exists |-> FALSE, rows |-> << >>] }
          /\ sry \in { [exists |-> TRUE, lines |-> inp[2]],
                       [exists |-> FALSE, lines |-> << >>] }
    /\ cache = [exists |-> FALSE, data |-> << >>]
    /\ wret = NoWaveCall
    /\ pret = NoCall
    /\ tfile = NoFile
    /\ tret = NoTableCall
    /\ task = NoTask
    /\ nc = NoNetCDF
    /\ xret = NoDatasetCall

CallLoadWaveformsWith(write_cache) ==
    /\ LET r == load_waveforms(raw, sry, cache, write_cache)
       IN  wret' = r.ret /\ cache' = r.cache
    /\ UNCHANGED <<raw, sry, pret, tfile, tret, task, nc, xret>>

CallLoadWaveforms == \E write_cache \in BOOLEAN : CallLoadWaveformsWith(write_cache)

NextWave == CallLoadWaveforms

SpecWave == InitWave /\ [][NextWave]_vars

(***************************************************************************)
(* The cache specification: the simulation directory changes between the   *)
(* calls.  It may hold a waveforms.npy from the start; the dump and the    *)
(* report may be removed, and the dump may be rewritten by a new run.      *)
(***************************************************************************)
\* Most rows of the dumps of the cache specification.
CacheRows == 3

CacheDumps == { d \in Dumps : Len(d) <= CacheRows /\ Ascending([k \in 1..Len(d) |-> d[k][2]]) }

\* The dump a new run of the simulation leaves: one antenna, two samples
\* that no other dump holds.
RewrittenDump == << RowOf(50, 2), RowOf(51, 2) >>

\* Content of a waveforms.npy found at the start: an empty array, or the
\* records of an earlier run that the current dump does not hold.
ForeignDump == << RowOf(60, 2), RowOf(61, 4), RowOf(62, 4) >>

PreexistingCaches ==
    { << >>,
      ParseWaveforms([exists |-> TRUE, rows |-> ForeignDump],
                     [exists |-> TRUE, lines |-> FullReport],
                     [exists |-> FALSE, data |-> << >>], FALSE).ret.data }

CacheReports == { FullReport, Without(FullReport, 2) }

InitCache ==
    /\ raw \in { [exists |-> TRUE, rows |-> d] : d \in CacheDumps }
                \cup { [exists |-> FALSE, rows |-> << >>] }
    /\ sry \in { [exists |-> TRUE, lines |-> r] : r \in CacheReports }
                \cup { [exists |-> FALSE, lines |-> << >>] }
    /\ cache \in { [exists |-> TRUE, data |-> d] : d \in PreexistingCaches }
                  \cup { [exists |-> FALSE, data |-> << >>] }
    /\ wret = NoWaveCall
    /\ pret = NoCall
    /\ tfile = NoFile
    /\ tret = NoTableCall
    /\ task = NoTask
    /\ nc = NoNetCDF
    /\ xret = NoDatasetCall

\* The raw dump is deleted.
RemoveRaw ==
    /\ raw.exists
    /\ raw' = [exists |-> FALSE, rows |-> << >>]
    /\ UNCHANGED <<sry, cache, wret, pret, tfile, tret, task, nc, xret>>

\* The summary report is deleted.
RemoveReport ==
    /\ sry.exists
    /\ sry' = [exists |-> FALSE, lines |-> << >>]
    /\ UNCHANGED <<raw, cache, wret, pret, tfile, tret, task, nc, xret>>

\* The simulation is run again and overwrites the raw dump.
RewriteRaw ==
    /\ raw' = [exists |-> TRUE, rows |-> RewrittenDump]
    /\ raw' # raw
    /\ UNCHANGED <<sry, cache, wret, pret, tfile, tret, task, nc, xret>>

NextCache ==
    \/ CallLoadWaveforms
    \/ RemoveRaw
    \/ RemoveReport
    \/ RewriteRaw

SpecCache == InitCache /\ [][NextCache]_vars

(***************************************************************************)
(* Claims about the waveform cache (checked under SpecCache).              *)
(***************************************************************************)
\* What a call would return if there were no cache file.
FreshParse ==
    ParseWaveforms(raw, sry, [exists |-> FALSE, data |-> << >>], FALSE).ret

\* C13: whenever waveforms.npy exists, a call of load_waveforms, with either
\* value of write_cache, returns the cache file's content and leaves the
\* cache file as it is, whatever the dump and the report hold and whether
\* they exist or not.
C13_CacheTrust ==
    [][(cache.exists /\ CallLoadWaveforms) =>
          /\ wret' = [status |-> "ok", src |-> "cache", data |-> cache.data]
          /\ cache' = cache]_vars

\* A call was served from a cache that differs from what the files on disk
\* would give now.
C13_Witness ==
    /\ cache.exists
    /\ wret.status = "ok" /\ wret.src = "cache"
    /\ raw.exists /\ sry.exists
    /\ FreshParse.status = "ok"
    /\ FreshParse.data # wret.data

\* C14: with no cache file, a successful call with write_cache = TRUE leaves
\* a cache file holding exactly the records it returned; and once the cache
\* holds the records a call returned, the next call with write_cache = TRUE
\* returns the same records from the cache, whatever happened to the raw
\* dump in between.
C14_CacheWriteThrough ==
    [][/\ (~cache.exists /\ CallLoadWaveformsWith(TRUE) /\ wret'.status = "ok")
            => (cache'.exists /\ cache'.data = wret'.data)
       /\ (cache.exists /\ wret.status = "ok" /\ cache.data = wret.data
              /\ CallLoadWaveformsWith(TRUE))
            => /\ wret'.status = "ok" /\ wret'.src = "cache"
               /\ wret'.data = wret.data
               /\ cache' = cache]_vars

\* A call was served from a cache written by an earlier call of this run,
\* after the raw dump had been removed.
C14_Witness ==
    /\ cache.exists /\ cache.data \notin PreexistingCaches
    /\ wret.status = "ok" /\ wret.src = "cache" /\ wret.data = cache.data
    /\ ~raw.exists

(***************************************************************************)
(* Claims about load_waveforms (checked under SpecWave).                   *)
(***************************************************************************)
\* The last call parsed the dump (no cache file was there) and returned.
Parsed == wret.status = "ok" /\ wret.src = "parse"

RowCount == Len(raw.rows)

\* A: the antenna index in the last row of the dump, as an integer.
AntennaCount == raw.rows[RowCount][2] \div 2

\* The file positions of the rows whose antenna index is exactly a.
RowsOf(a) == { k \in 1..RowCount : raw.rows[k][2] = 2 * a }

\* The position of the j-th row of antenna a, in file order.
NthRow(a, j) ==
    CHOOSE k \in RowsOf(a) : Cardinality({ q \in RowsOf(a) : q < k }) = j - 1

\* ceil(r / a): the least n with n * a >= r.
CeilDiv(r, a) == CHOOSE n \in 0..r : n * a >= r /\ (n - 1) * a < r

\* The series fields with the tuple position of the column each is read from.
SeriesColumns == { << "t", 6 >>, << "Ex", 12 >>, << "Ey", 13 >>, << "Ez", 14 >> }

\* The j-th sample of antenna a in the column at tuple position c, as a
\* float32 field holds it.
Sample(a, j, c) == F32(raw.rows[NthRow(a, j)][c])

\* C1: every record load_waveforms returns has t, Ex, Ey and Ez series of
\* length exactly ceil(R / A), R the number of rows of the dump and A the
\* antenna index in its last row, however the rows are spread over the
\* antennas.
C1_WaveformLength ==
    Parsed =>
        \A i \in 1..Len(wret.data) : \A sc \in SeriesColumns :
            Len(wret.data[i][sc[1]]) = CeilDiv(RowCount, AntennaCount)

\* Four rows, three of antenna 1 and one of antenna 2, gave series of
\* length 2.
C1_Witness ==
    /\ Parsed
    /\ RowCount = 4 /\ AntennaCount = 2
    /\ Cardinality(RowsOf(1)) = 3 /\ Cardinality(RowsOf(2)) = 1
    /\ \A i \in 1..2 : Len(wret.data[i].t) = 2 /\ Len(wret.data[i].Ez) = 2

\* C2: with n the number of rows of an antenna and L the common length, the
\* stored series is the antenna's n samples in file order followed by L - n
\* zeros when n < L, the samples unchanged when n = L, and the first L
\* samples when n > L (samples as the float32 fields hold them).
C2_PaddingCorrectness ==
    Parsed =>
        \A i \in 1..Len(wret.data) : \A sc \in SeriesColumns :
            LET s == wret.data[i][sc[1]]
                n == Cardinality(RowsOf(i))
                L == CeilDiv(RowCount, AntennaCount)
            IN  /\ Len(s) = L
                /\ n < L => /\ \A j \in 1..n : s[j] = Sample(i, j, sc[2])
                            /\ \A j \in (n + 1)..L : s[j] = 0
                /\ n = L => \A j \in 1..L : s[j] = Sample(i, j, sc[2])
                /\ n > L => \A j \in 1..L : s[j] = Sample(i, j, sc[2])

\* One antenna was cut to its first two samples (3 rows, L = 2) and one
\* padded (1 row).
C2_Witness ==
    /\ Parsed
    /\ RowsOf(1) = {1, 2, 3} /\ RowsOf(2) = {4}
    /\ wret.data[1].t = << F32(raw.rows[1][6]), F32(raw.rows[2][6]) >>
    /\ wret.data[1].Ez = << F32(raw.rows[1][14]), F32(raw.rows[2][14]) >>
    /\ wret.data[2].t = << F32(raw.rows[4][6]), 0 >>

\* The properties the report of the run yields.
ReportProps == load_properties(sry).props

\* C3: load_waveforms returns exactly A records; record i is built only
\* from the rows whose antenna index is i, its position is that of the first
\* such row in file order, and all records carry the same scalar metadata
\* (the values of the report).
C3_RecordIndexing ==
    Parsed =>
        /\ Len(wret.data) = AntennaCount
        /\ \A i \in 1..Len(wret.data) :
              LET first == NthRow(i, 1) IN
              /\ RowsOf(i) # {}
              /\ wret.data[i].x = F32(raw.rows[first][3])
              /\ wret.data[i].y = F32(raw.rows[first][4])
              /\ wret.data[i].z = F32(raw.rows[first][5])
              /\ \A sc \in SeriesColumns :
                    \A j \in 1..Len(wret.data[i][sc[1]]) :
                        \/ wret.data[i][sc[1]][j] = 0
                        \/ \E k \in RowsOf(i) :
                              wret.data[i][sc[1]][j] = F32(raw.rows[k][sc[2]])
        /\ \A i \in 1..Len(wret.data) : \A q \in 1..Len(RecordKeys) :
              /\ wret.data[i][RecordKeys[q]] = wret.data[1][RecordKeys[q]]
              /\ wret.data[i][RecordKeys[q]] = F32(ReportProps[RecordKeys[q]])

\* The end-to-end scenario: two antennas with three samples each (six
\* rows) gave two records of series length 3, with energy 1.0.
C3_Witness ==
    /\ Parsed
    /\ RowCount = 6
    /\ RowsOf(1) = {1, 2, 3} /\ RowsOf(2) = {4, 5, 6}
    /\ Len(wret.data) = 2
    /\ Len(wret.data[1].t) = 3 /\ Len(wret.data[2].t) = 3
    /\ wret.data[2].x = F32(raw.rows[4][3])
    /\ wret.data[1].energy = Pow10(4) /\ wret.data[2].energy = Pow10(4)

\* The dump is one load_waveforms can assemble: at least two rows, and
\* every antenna 1..A has a row.
DumpComplete ==
    /\ raw.exists /\ RowCount >= 2 /\ AntennaCount >= 1
    /\ \A a \in 1..AntennaCount : RowsOf(a) # {}

\* C4: when the report lacks one or more of the scalar properties copied
\* into the records, load_waveforms still returns the records, with every
\* property that is present copied.
C4_PartialDataTolerance ==
    (wret.src = "parse" /\ DumpComplete /\ sry.exists
        /\ load_properties(sry).status = "ok")
    => /\ wret.status = "ok"
       /\ \A i \in 1..Len(wret.data) : \A q \in 1..Len(RecordKeys) :
             RecordKeys[q] \in DOMAIN ReportProps
                => wret.data[i][RecordKeys[q]] = F32(ReportProps[RecordKeys[q]])

EvenlySpread ==
    \A a, b \in 1..AntennaCount : Cardinality(RowsOf(a)) = Cardinality(RowsOf(b))

C20_AntennaIndexValidation ==
    Parsed =>
        \A k \in 1..RowCount :
            \E a \in 1..AntennaCount : raw.rows[k][2] = 2 * a

(***************************************************************************)
(* aires.Task: the session with the Aires subprocess.  A Python string is  *)
(* a sequence of chunks; a chunk is either the newline character or a      *)
(* non-empty piece of text without a newline, so the last character of a   *)
(* string is a newline exactly when its last chunk is.                     *)
(***************************************************************************)
Nl == "\n"

\* str(d) for a decimal digit d.
DigitStr(d) == << "0", "1", "2", "3", "4", "5", "6", "7", "8", "9" >>[d + 1]

\* str(n) for n >= 0, one chunk per digit.
RECURSIVE NatStr(_)
NatStr(n) == IF n < 10 THEN << DigitStr(n) >>
             ELSE NatStr(n \div 10) \o << DigitStr(n % 10) >>

\* The digits of the fraction f / 10^k, without trailing zeros.
RECURSIVE FracStr(_, _)
FracStr(f, k) ==
    IF k = 0 \/ f = 0 THEN << >>
    ELSE << DigitStr(f \div Pow10(k - 1)) >> \o FracStr(f % Pow10(k - 1), k - 1)

\* f"{float(x)}" for x held in units of 10^-4 (repr without exponent:
\* 1 -> "1.0", 53.44 -> "53.44", -0.5 -> "-0.5").
FloatStr(x) ==
    LET a  == IF x < 0 THEN -x ELSE x
        fr == FracStr(a % FixOne, 4)
    IN  (IF x < 0 THEN << "-" >> ELSE << >>)
        \o NatStr(a \div FixOne) \o << "." >>
        \o (IF fr = << >> THEN << "0" >> ELSE fr)

\* cmd.encode(): the UTF-8 bytes of each chunk.
encode(cmd) == [i \in 1..Len(cmd) |-> << "utf-8", cmd[i] >>]

\* Events on the subprocess's stdin.
Write(bytes) == [ev |-> "write", data |-> bytes]

Flush == [ev |-> "flush", data |-> << >>]

\* The Task `t` after a method ended with `status`.
Ended(t, status) == [t EXCEPT !.ret.status = status]

\* read_cmd without the test for a finished session.
read_cmd_unguarded(t, cmd) ==
    LET echoed == IF t.verbose THEN [t EXCEPT !.echo = Append(@, cmd)] ELSE t
    IN  IF Len(cmd) = 0 THEN Ended(echoed, "IndexError")
        ELSE
          LET line == IF cmd[Len(cmd)] # Nl THEN cmd \o << Nl >> ELSE cmd
          IN  Ended([echoed EXCEPT
                        !.pipe = @ \o << Write(encode(line)), Flush >>],
                    "ok")

\* Task.read_cmd(cmd).  cmd[-1] of the empty string is an IndexError; a
\* write to the stdin that communicate() closed is a ValueError.
read_cmd(t, cmd) ==
    IF t.process = "None" THEN Ended(t, "ValueError")
    ELSE
      LET echoed == IF t.verbose THEN [t EXCEPT !.echo = Append(@, cmd)] ELSE t
      IN  IF Len(cmd) = 0 THEN Ended(echoed, "IndexError")
          ELSE
            LET line == IF cmd[Len(cmd)] # Nl THEN cmd \o << Nl >> ELSE cmd
            IN  IF t.stdin # "open" THEN Ended(echoed, "ValueError")
                ELSE Ended([echoed EXCEPT
                              !.pipe = @ \o << Write(encode(line)), Flush >>],
                           "ok")

\* Task.exit(): send Exit, terminate the subprocess, forget it.
exit(t) ==
    LET sent == read_cmd(t, << "Exit" >>) IN
    IF sent.ret.status # "ok" THEN sent
    ELSE [sent EXCEPT !.child = "terminated", !.process = "None"]

\* Task.run(): communicate() closes stdin and waits for the subprocess.
run(t) ==
    IF t.process = "None" THEN Ended(t, "ValueError")
    ELSE Ended([t EXCEPT !.stdin = "closed",
                         !.child = IF @ = "running" THEN "finished" ELSE @],
               "ok")

\* Task.__exit__(): after exit() has set self.process to None,
\* self.process.terminate() is an AttributeError.
task_exit(t) ==
    IF t.process = "None" THEN Ended(t, "ok")
    ELSE LET left == exit(t) IN
         IF left.ret.status # "ok" THEN left
         ELSE Ended(left, "AttributeError")

\* Task.load_from_file's loop: read_cmd on every line, in file order.
RECURSIVE ReadLines(_, _, _)
ReadLines(t, lines, i) ==
    IF i > Len(lines) \/ t.ret.status # "ok" THEN t
    ELSE ReadLines(read_cmd(t, lines[i]), lines, i + 1)

\* Task.load_from_file(cmdfile)
load_from_file(t, cmdfile) ==
    IF ~cmdfile.given THEN Ended(t, "ok")
    ELSE IF ~cmdfile.exists THEN Ended(t, "FileNotFoundError")
    ELSE ReadLines(Ended(t, "ok"), cmdfile.lines, 1)

\* The command strings of the parameter helpers.
task_name(name) == << "TaskName " >> \o name

total_showers(nshowers) == << "TotalShowers " >> \o NatStr(nshowers)

primary_energy(energy, unit) ==
    << "PrimaryEnergy " >> \o FloatStr(energy) \o << " " >> \o unit

primary_zenith(zenith) ==
    << "PrimaryZenAngle " >> \o FloatStr(zenith) \o << " deg" >>

primary_azimuth(azimuth, geographic) ==
    << "PrimaryAzimAngle " >> \o FloatStr(azimuth) \o << " deg " >>
    \o (IF geographic THEN << "Geographic" >> ELSE << >>)

thinning_energy(energy, unit, relative) ==
    IF relative
    THEN << "ThinningEnergy " >> \o FloatStr(energy) \o << " Relative" >>
    ELSE << "ThinningEnergy " >> \o FloatStr(energy) \o << " " >> \o unit

zhaires(enabled) == << "ZHAireS ", IF enabled THEN "On" ELSE "Off" >>

add_antenna(x, y, z) ==
    << "AddAntenna " >> \o FloatStr(x) \o << " " >> \o FloatStr(y)
    \o << " " >> \o FloatStr(z)

file_directory(directory, files) ==
    << "FileDirectory " >> \o files \o << " " >> \o directory

remark(text) == << "Remark " >> \o text

\* Task.per_shower_data(data): only Full, Brief and None are accepted.
per_shower_data(t, data) ==
    IF data \notin { << "Full" >>, << "Brief" >>, << "None" >> }
    THEN Ended(t, "ValueError")
    ELSE read_cmd(t, << "PerShowerData " >> \o data)

\* The two commands of Task.__init__ sent in the other order.
InitCommandsRemarkFirst(directory) ==
    << remark(<< "Task generated using zhaires.py" >>),
       file_directory(directory, << "All" >>) >>

\* The commands Task.__init__ sends after the command file.
InitCommands(directory) ==
    << file_directory(directory, << "All" >>),
       remark(<< "Task generated using zhaires.py" >>) >>

\* The Aires binaries of the host: `program` as given, and what
\* find_aires() finds on the PATH.
Programs == { "None", "/opt/aires/bin/Aires", "/missing/Aires" }

ProgramExists(program) == program = "/opt/aires/bin/Aires"

\* Task.__init__(program, cmdfile, verbose, directory); `on_path` tells
\* whether find_aires() finds an executable.
Construct(program, on_path, cmdfile, verbose, directory) ==
    IF program = "None" /\ ~on_path THEN Ended(NoTask, "RuntimeError")
    ELSE IF program # "None" /\ ~ProgramExists(program)
    THEN Ended(NoTask, "ValueError")
    ELSE
      LET opened == [NoTask EXCEPT !.verbose = verbose, !.process = "Popen",
                                   !.child = "running", !.stdin = "open"]
          loaded == load_from_file(opened, cmdfile)
      IN  IF loaded.ret.status # "ok" THEN [loaded EXCEPT !.obj = "failed"]
          ELSE [ReadLines([loaded EXCEPT !.directory = directory],
                          InitCommands(directory), 1)
                  EXCEPT !.obj = "live"]

(***************************************************************************)
(* The session specification: a Task is constructed and its methods are    *)
(* called in any order.  The Aires subprocess keeps reading its stdin and  *)
(* ends when the pipe is closed or it is terminated.                       *)
(***************************************************************************)
\* Most method calls on the constructed Task.
MaxCalls == 3

CmdFiles ==
    { [given |-> FALSE, exists |-> FALSE, lines |-> << >>],
      [given |-> TRUE,  exists |-> FALSE, lines |-> << >>],
      [given |-> TRUE,  exists |-> TRUE,
       lines |-> << << "TaskName ", "default", Nl >>, << "TotalShowers 1" >> >>] }

Directories == { << "/tmp/" >>, << "/runs" >> }

\* Command strings given to Task.__call__.
CallStrings ==
    { << >>, << "RandomSeed 0.128900437" >>,
      << "RandomSeed 0.128900437", Nl >> }

InitTask ==
    /\ task = NoTask
    /\ nc = NoNetCDF
    /\ xret = NoDatasetCall
    /\ sry = NoFile
    /\ pret = NoCall
    /\ raw = NoFile
    /\ cache = NoFile
    /\ wret = NoWaveCall
    /\ tfile = NoFile
    /\ tret = NoTableCall

\* The Task after a method named `op` left it as `t`.
After(op, t) ==
    /\ task' = [t EXCEPT !.ret.op = op, !.calls = task.calls + 1]
    /\ UNCHANGED <<sry, pret, raw, cache, wret, tfile, tret, nc, xret>>

Live == task.obj = "live" /\ task.calls < MaxCalls

NewWith(program, on_path, cmdfile, verbose, directory) ==
    /\ task.obj = "none" /\ task.ret.op = "none"
    /\ task' = [Construct(program, on_path, cmdfile, verbose, directory)
                  EXCEPT !.ret.op = "__init__"]
    /\ UNCHANGED <<sry, pret, raw, cache, wret, tfile, tret, nc, xret>>

New ==
    \E program \in Programs, on_path \in BOOLEAN, cmdfile \in CmdFiles,
       verbose \in BOOLEAN, directory \in Directories :
       NewWith(program, on_path, cmdfile, verbose, directory)

Call ==
    Live /\ \E cmd \in CallStrings : After("__call__", read_cmd(task, cmd))

TaskName ==
    Live /\ After("task_name", read_cmd(task, task_name(<< "my_test_task" >>)))

TotalShowers ==
    Live /\ After("total_showers", read_cmd(task, total_showers(10)))

PrimaryEnergy ==
    Live /\ \E eu \in { << 1 * FixOne, << "EeV" >> >>, << 10 * FixOne, << "PeV" >> >> } :
               After("primary_energy",
                     read_cmd(task, primary_energy(eu[1], eu[2])))

PrimaryZenith ==
    Live /\ After("primary_zenith", read_cmd(task, primary_zenith(534400)))

PrimaryAzimuth ==
    Live /\ \E g \in BOOLEAN :
               After("primary_azimuth", read_cmd(task, primary_azimuth(0, g)))

ZHAireS ==
    Live /\ \E on \in BOOLEAN : After("zhaires", read_cmd(task, zhaires(on)))

AddAntenna ==
    Live /\ After("add_antenna", read_cmd(task, add_antenna(0, -5000, 12000000)))

ThinningEnergy ==
    Live /\ \E rel \in BOOLEAN :
               After("thinning_energy",
                        read_cmd(task, thinning_energy(1000, << "GeV" >>, rel)))

PerShowerData ==
    Live /\ \E d \in { << "Full" >>, << "Bogus" >> } :
               After("per_shower_data", per_shower_data(task, d))

Remark ==
    Live /\ After("remark", read_cmd(task, remark(<< "Hello world" >>)))

Exit == Live /\ After("exit", exit(task))

Run == Live /\ After("run", run(task))

ContextExit == Live /\ After("__exit__", task_exit(task))

NextTask ==
    \/ New
    \/ Call
    \/ TaskName
    \/ TotalShowers
    \/ PrimaryEnergy
    \/ PrimaryZenith
    \/ PrimaryAzimuth
    \/ ZHAireS
    \/ AddAntenna
    \/ ThinningEnergy
    \/ PerShowerData
    \/ Remark
    \/ Exit
    \/ Run
    \/ ContextExit

SpecTask == InitTask /\ [][NextTask]_vars

(***************************************************************************)
(* Claims about the Task session (checked under SpecTask).                 *)
(***************************************************************************)
\* exit() has run on the Task: it holds no subprocess any more.
Closed == task.obj = "live" /\ task.process = "None"

\* The Task holds its subprocess and the pipe to it has not been closed.
Open == task.obj = "live" /\ task.process # "None" /\ task.stdin = "open"

\* A method was called in this step.
Called1 == task'.calls = task.calls + 1

\* The parameter helpers of the model.
HelperOps ==
    { "task_name", "total_showers", "primary_energy", "primary_zenith",
      "primary_azimuth", "zhaires", "add_antenna", "thinning_energy",
      "per_shower_data", "remark" }

\* The methods that send a command.
CommandOps == HelperOps \cup { "__call__", "exit" }

\* C16: once exit() has run, every later command (__call__, a parameter
\* helper, a second exit()) raises ValueError, nothing more is written to
\* the subprocess's stdin, and the Task never holds a subprocess again.
C16_ClosedSessionRejects ==
    [][(Closed /\ Called1) =>
          /\ task'.process = "None"
          /\ task'.pipe = task.pipe
          /\ task'.ret.op \in CommandOps => task'.ret.status = "ValueError"]_vars

\* A second exit() was rejected.
C16_Witness ==
    /\ Closed
    /\ task.calls >= 2
    /\ task.ret.op = "exit" /\ task.ret.status = "ValueError"

\* The line read_cmd is to write for `cmd`: cmd itself when it ends with a
\* newline, cmd and one newline otherwise.
Terminated(cmd) ==
    IF Len(cmd) > 0 /\ cmd[Len(cmd)] = Nl THEN cmd ELSE cmd \o << Nl >>

\* C17: for every command string, the empty one included, __call__ on an
\* open session returns and has written exactly the command, followed by
\* one newline if it did not end with one.
C17_NewlineTermination ==
    [][\A cmd \in CallStrings :
          (Open /\ After("__call__", read_cmd(task, cmd))) =>
              /\ task'.ret.status = "ok"
              /\ task'.pipe = task.pipe \o << Write(encode(Terminated(cmd))), Flush >>]_vars

\* What stdin receives for a sequence of command lines: each line, newline
\* terminated, then a flush.
RECURSIVE Sent(_, _)
Sent(lines, i) ==
    IF i > Len(lines) THEN << >>
    ELSE << Write(encode(Terminated(lines[i]))), Flush >> \o Sent(lines, i + 1)

\* This step appended one write of a single newline-terminated line, and a
\* flush, to what stdin had received.
OneLineWritten ==
    LET n == Len(task.pipe) IN
    /\ Len(task'.pipe) = n + 2
    /\ SubSeq(task'.pipe, 1, n) = task.pipe
    /\ task'.pipe[n + 1].ev = "write"
    /\ LET data == task'.pipe[n + 1].data IN
          /\ Len(data) > 0
          /\ \A k \in 1..Len(data) : (data[k] = << "utf-8", Nl >>) <=> (k = Len(data))
    /\ task'.pipe[n + 2] = Flush

\* Constructing the Task has sent the lines of the command file, then the
\* FileDirectory directive, then the Remark.
ConstructionOrder ==
    \A program \in Programs, on_path \in BOOLEAN, cmdfile \in CmdFiles,
       verbose \in BOOLEAN, directory \in Directories :
       (NewWith(program, on_path, cmdfile, verbose, directory)
          /\ task'.obj = "live")
       => task'.pipe =
            Sent(cmdfile.lines
                   \o << << "FileDirectory ", "All", " " >> \o directory,
                         << "Remark ", "Task generated using zhaires.py" >> >>,
                 1)

\* run() on the open session returns and writes nothing.
RunCompletes ==
    (Open /\ Called1 /\ task'.ret.op = "run")
    => (task'.ret.status = "ok" /\ task'.pipe = task.pipe)

\* C18 as stated: construction sends the command file, FileDirectory and the
\* Remark in this order; every later helper call on the open session writes
\* exactly one command line, followed by a flush, after the lines written
\* before; a following run() completes without raising.
C18_CommandOrderingAsStated ==
    [][/\ ConstructionOrder
       /\ (Open /\ Called1 /\ task'.ret.op \in HelperOps)
            => (task'.ret.status = "ok" /\ OneLineWritten)
       /\ RunCompletes]_vars

\* C18 amended: as above, for the helper calls (and __call__) that return;
\* a call that raises, such as per_shower_data with a value other than
\* Full, Brief or None, writes nothing.
C18_CommandOrdering ==
    [][/\ ConstructionOrder
       /\ (Open /\ Called1 /\ task'.ret.op \in HelperOps \cup { "__call__" })
            => IF task'.ret.status = "ok" THEN OneLineWritten
               ELSE task'.pipe = task.pipe
       /\ (Open /\ Called1 /\ task'.ret.op \in HelperOps
              /\ task'.ret.op # "per_shower_data")
            => task'.ret.status = "ok"
       /\ RunCompletes]_vars

\* A Task built with a two-line command file took two helper calls and was
\* then run: stdin received six lines, each followed by a flush.
C18_Witness ==
    /\ task.obj = "live"
    /\ task.ret.op = "run" /\ task.ret.status = "ok"
    /\ task.calls = 3
    /\ Len(task.pipe) = 12
    /\ task.pipe[1] = Write(encode(<< "TaskName ", "default", Nl >>))
    /\ task.pipe[3] = Write(encode(<< "TotalShowers 1", Nl >>))

\* The step is a call of __exit__.
ExitCalled == Called1 /\ task'.ret.op = "__exit__"

\* C22: __exit__ on a task whose subprocess is open sends the "Exit"
\* command, terminates the subprocess and returns normally with the process
\* handle cleared; on a task that is already closed it does nothing and
\* does not raise.
C22_ContextExit ==
    [][/\ (Open /\ ExitCalled) =>
             /\ task'.pipe =
                   task.pipe \o << Write(encode(<< "Exit", Nl >>)), Flush >>
             /\ task'.child = "terminated"
             /\ task'.process = "None"
             /\ task'.ret.status = "ok"
       /\ (Closed /\ ExitCalled) =>
             /\ task'.ret.status = "ok"
             /\ task'.pipe = task.pipe
             /\ task'.process = "None"
             /\ task'.child = task.child]_vars

(***************************************************************************)
(* xarray.load_waveforms and its <sim>.nc cache.  Times (ns) and field     *)
(* samples of a Dataset are kept in units of 1/Ticks, which is exact for   *)
(* the sample rates of the bounded calls.  The run directory holds no      *)
(* antenna_angles.dat, and the calls pass method="linear".                 *)
(***************************************************************************)
\* Subdivisions of one unit in the Dataset's numbers.
Ticks == 2

\* The fill value of interp outside the range of the time coordinate; no
\* sample of the bounded inputs is negative.
NaN == -1

\* The Dataset built from the records and the properties: the waveforms
\* with their time coordinate np.arange(length) * dt, the antenna
\* locations, and the attributes.
BuildDataset(records, props) ==
    LET nant   == Len(records)
        length == Len(records[1].Ex)
        dt     == F32(records[1].t[2] - records[1].t[1])
    IN  [name      |-> "sim",
         directory |-> "/runs",
         attrs     |-> props,
         dt        |-> Ticks * dt,
         time      |-> [j \in 1..length |-> (j - 1) * dt * Ticks],
         waveforms |->
            [i \in 1..nant |->
                [Ex |-> [j \in 1..length |-> Ticks * records[i].Ex[j]],
                 Ey |-> [j \in 1..length |-> Ticks * records[i].Ey[j]],
                 Ez |-> [j \in 1..length |-> Ticks * records[i].Ez[j]]]],
         locations |->
            [i \in 1..nant |->
                [x |-> records[i].x, y |-> records[i].y, z |-> records[i].z,
                 t0 |-> records[i].t[1]]]]

\* Linear interpolation of the series (times, values) at time t: the
\* sample itself at a sample time, NaN outside the range of `times`.
Interp(times, values, t) ==
    LET n     == Len(times)
        knots == { j \in 1..n : times[j] = t }
        spans == { j \in 1..(n - 1) :
                      \/ times[j] < t /\ t < times[j + 1]
                      \/ times[j + 1] < t /\ t < times[j] }
    IN  IF knots # {} THEN values[CHOOSE j \in knots : TRUE]
        ELSE IF spans = {} THEN NaN
        ELSE LET j == CHOOSE k \in spans : TRUE
             IN  (values[j] * (times[j + 1] - t) + values[j + 1] * (t - times[j]))
                    \div (times[j + 1] - times[j])

\* resample_waveforms(sim, fs, method="linear"); fs in GSa/s.  The
\* attributes (dt among them) are carried over by interp.
resample_waveforms(sim, fs) ==
    IF sim.dt * fs = Ticks
    THEN sim
    ELSE
      LET new_times == [j \in 1..Len(sim.time) |-> (j - 1) * (Ticks \div fs)]
          onto(series) ==
              [j \in 1..Len(new_times) |-> Interp(sim.time, series, new_times[j])]
      IN  [sim EXCEPT
             !.time = new_times,
             !.waveforms =
                [i \in 1..Len(sim.waveforms) |->
                    [Ex |-> onto(sim.waveforms[i].Ex),
                     Ey |-> onto(sim.waveforms[i].Ey),
                     Ez |-> onto(sim.waveforms[i].Ez)]]]

\* What xarray.load_waveforms returns or raises.
DatasetReturn(src, dataset) ==
    [status |-> "ok", src |-> src, none |-> FALSE, dataset |-> dataset,
     resample |-> NoResample, trim |-> NoTrim]

\* trim_dataset has no return statement: the caller is handed None.
NoneReturn ==
    [status |-> "ok", src |-> "parse", none |-> TRUE, dataset |-> NoDataset,
     resample |-> NoResample, trim |-> NoTrim]

DatasetRaise(kind) ==
    [status |-> kind, src |-> "parse", none |-> FALSE, dataset |-> NoDataset,
     resample |-> NoResample, trim |-> NoTrim]

\* if write_netcdf: dataset.to_netcdf(path=cachefile, mode="w")
WriteNetCDF(ncfile, dataset, write_netcdf) ==
    IF write_netcdf THEN [exists |-> TRUE, dataset |-> dataset] ELSE ncfile

\* xarray.load_waveforms past its cache test: load the records with
\* loader.load_waveforms(write_cache=False) and the properties, build the
\* Dataset, resample and trim it if asked to, write <sim>.nc if asked to.
\* Gives the outcome and the two cache files the call leaves.
BuildAndWrite(rawfile, report, cachefile, ncfile, write_netcdf, resample, trim) ==
    Bind(load_waveforms(rawfile, report, cachefile, FALSE),
         LAMBDA loaded :
    Bind(load_properties(report),
         LAMBDA p :
    LET left(ret, ncleft) == [ret |-> ret, nc |-> ncleft, cache |-> loaded.cache]
        records == loaded.ret.data
    IN
    IF loaded.ret.status # "ok"
    THEN left(DatasetRaise(loaded.ret.status), ncfile)
    ELSE IF p.status # "ok"
    THEN left(DatasetRaise(p.status), ncfile)
    ELSE IF Len(records) = 0
    THEN \* raw["t"][0, 1] on an array without records
         left(DatasetRaise("IndexError"), ncfile)
    ELSE IF Len(records[1].Ex) < 2
    THEN \* raw["t"][0, 1] on series of one sample
         left(DatasetRaise("IndexError"), ncfile)
    ELSE
      LET built     == BuildDataset(records, p.props)
          resampled == IF resample.given
                       THEN resample_waveforms(built, resample.value)
                       ELSE built
      IN  IF trim.given
          THEN \* dataset = trim_dataset(dataset, trim) binds None
               IF write_netcdf
               THEN left(DatasetRaise("AttributeError"), ncfile)
               ELSE left(NoneReturn, ncfile)
          ELSE left(DatasetReturn("parse", resampled),
                    WriteNetCDF(ncfile, resampled, write_netcdf))))

\* xr.open_dataset(cachefile)
OpenDataset(cachefile, ncfile) ==
    [ret |-> DatasetReturn("cache", ncfile.dataset), nc |-> ncfile,
     cache |-> cachefile]

\* xarray.load_waveforms that resamples what it read from <sim>.nc (a
\* plausible slip: the cache test placed before the resampling only).
xarray_load_waveforms_resample_cached(rawfile, report, cachefile, ncfile, write_netcdf, resample, trim) ==
    IF ncfile.exists
    THEN [ret |-> DatasetReturn("cache",
                     IF resample.given
                     THEN resample_waveforms(ncfile.dataset, resample.value)
                     ELSE ncfile.dataset),
          nc |-> ncfile, cache |-> cachefile]
    ELSE BuildAndWrite(rawfile, report, cachefile, ncfile, write_netcdf,
                       resample, trim)

\* xarray.load_waveforms(sim, directory, write_netcdf, resample, trim)
xarray_load_waveforms(rawfile, report, cachefile, ncfile, write_netcdf, resample, trim) ==
    IF ncfile.exists
    THEN OpenDataset(cachefile, ncfile)
    ELSE BuildAndWrite(rawfile, report, cachefile, ncfile, write_netcdf,
                       resample, trim)

(***************************************************************************)
(* The dataset specification: the simulation directory of the cache        *)
(* specification, without a <sim>.nc at the start, read through both       *)
(* loaders in any order while the raw files come and go.                   *)
(***************************************************************************)
\* Sample rates asked for (GSa/s); the dumps are sampled at 1 GSa/s.
Rates == { 1, 2 }

\* (before, after) windows asked for, in ns.
Trims == { << 10, 20 >> }

\* The dumps of the dataset specification: two rows or more, every row of
\* antenna 1 or antenna 2.
NetCDFDumps ==
    { d \in CacheDumps :
         Len(d) >= 2 /\ \A k \in 1..Len(d) : Col(d[k], 1) \in { 2, 4 } }

InitNetCDF ==
    /\ raw \in { [exists |-> TRUE, rows |-> d] : d \in NetCDFDumps }
                \cup { [exists |-> FALSE, rows |-> << >>] }
    /\ sry \in { [exists |-> TRUE, lines |-> r] : r \in CacheReports }
                \cup { [exists |-> FALSE, lines |-> << >>] }
    /\ cache \in { [exists |-> TRUE, data |-> d] : d \in PreexistingCaches }
                  \cup { [exists |-> FALSE, data |-> << >>] }
    /\ nc = NoNetCDF
    /\ xret = NoDatasetCall
    /\ wret = NoWaveCall
    /\ pret = NoCall
    /\ tfile = NoFile
    /\ tret = NoTableCall
    /\ task = NoTask

CallXarrayLoadWaveformsWith(write_netcdf, resample, trim) ==
    /\ LET r == xarray_load_waveforms(raw, sry, cache, nc, write_netcdf,
                                      resample, trim)
       IN  /\ xret' = [r.ret EXCEPT !.resample = resample, !.trim = trim]
           /\ nc' = r.nc
           /\ cache' = r.cache
    /\ UNCHANGED <<raw, sry, pret, wret, tfile, tret, task>>

CallXarrayLoadWaveforms ==
    \E write_netcdf \in BOOLEAN,
       resample \in { NoResample } \cup { Given(fs) : fs \in Rates },
       trim \in { NoTrim } \cup { Given(w) : w \in Trims } :
       CallXarrayLoadWaveformsWith(write_netcdf, resample, trim)

NextNetCDF ==
    \/ CallXarrayLoadWaveforms
    \/ CallLoadWaveforms
    \/ RemoveRaw
    \/ RemoveReport
    \/ RewriteRaw

SpecNetCDF == InitNetCDF /\ [][NextNetCDF]_vars

(***************************************************************************)
(* Claims about the two caches (checked under SpecNetCDF).                 *)
(***************************************************************************)
\* C23: waveforms.npy is created only as the last step of a successful
\* loader.load_waveforms call made with write_cache = TRUE.  A step that
\* changes the cache file is such a call: the file was absent and now holds
\* the records the call returned.  So a call that fails (missing dump,
\* missing property, antenna without rows), a call made with
\* write_cache = FALSE and the call xarray.load_waveforms makes
\* (write_cache = FALSE) leave the file absent if it was absent and
\* unchanged if it existed.
C23_CacheWrittenLast ==
    [][cache' # cache =>
          /\ CallLoadWaveformsWith(TRUE)
          /\ ~CallLoadWaveformsWith(FALSE)
          /\ ~CallXarrayLoadWaveforms
          /\ ~cache.exists /\ cache'.exists
          /\ wret'.status = "ok" /\ wret'.src = "parse"
          /\ cache'.data = wret'.data]_vars

\* A call on a complete run returned its records from the dump and left no
\* cache file (it was made with write_cache = FALSE), after the dataset
\* loader had read the same run without leaving one either.
C23_Witness ==
    /\ wret.status = "ok" /\ wret.src = "parse"
    /\ xret.status = "ok" /\ xret.src = "parse"
    /\ raw.exists /\ sry.exists
    /\ ~cache.exists

\* 1 / (spacing of the time coordinate), in GSa/s, for a coordinate whose
\* spacing divides one ns.
RateOf(dataset) == Ticks \div (dataset.time[2] - dataset.time[1])

====
